---- MODULE Spec2Model ----
(***************************************************************************)
(* Model of the authenticated HTTP client of the Ai-LMS frontend           *)
(* (frontend/src/services/api.ts): the token store (localStorage), the     *)
(* request interceptor, the response interceptor with its refresh-and-     *)
(* retry, and the auth facade operations that go through the client.       *)
(*                                                                         *)
(* Execution is the browser's event loop: a handler runs from the arrival  *)
(* of a network response to the next network call without interruption,    *)
(* so each action below is one such run.  Several logical requests may be  *)
(* in flight at once; their handlers interleave at the network calls.      *)
(***************************************************************************)
EXTENDS Naturals, Sequences, FiniteSets

\* ------------------------------------------------------------------ bounds
\* Number of logical requests issued through the client in one behaviour.
MaxReq == 2

Req == 1..MaxReq

\* ------------------------------------------------------------------ values
\* localStorage.getItem returns null for a key that is not stored.
None == "null"

\* Access tokens the backend may hand out; refresh tokens likewise.
AccessTokens == {"a1", "a2"}
RefreshTokens == {"r1"}

\* process.env.REACT_APP_API_URL: unset, or the override of a build.
Unset == "undefined"
ApiUrls == {Unset, "https://api.example.com"}

\* The default base origin, and the origin the page itself is served from.
DefaultOrigin == "http://localhost:8000"
PageOrigin == "http://localhost:3000"

\* The status the response interceptor tests for (api.ts line 54).
Unauthorized == 401

\* Error statuses of a dispatched request that carry an HTTP response.
ErrorStatuses == {Unauthorized, 500}

\* Ways the refresh call can fail: a 401 answer, or no answer at all.
RefreshFailures == {Unauthorized, 0}

\* Operations that issue one request through the client.
\* "call" stands for every facade that returns response.data and touches
\* nothing else (getCurrentUser, emailAI.*, lifeBalanceAI.*, memoryAI.*).
Ops == {"login", "register", "logout", "call"}

\* The Authorization header of a request: absent, or Bearer <token>.
NoHeader == << >>
Bearer(t) == <<"Bearer", t>>

\* Errors a caller can receive.
NoError == [src |-> "none", n |-> 0, status |-> 0]
\* The AxiosError of the n-th dispatch of a request, answered with status s.
DispatchError(n, s) == [src |-> "dispatch", n |-> n, status |-> s]
\* The error of the refresh call (axios.post rejecting), status 0 = no answer.
RefreshError(s) == [src |-> "refresh", n |-> 0, status |-> s]
\* The AxiosError of the n-th dispatch when no response arrived at all
\* (error.response is undefined).
NetworkError(n) == [src |-> "network", n |-> n, status |-> 0]
\* Reading .status of an undefined error.response throws a TypeError.
TypeErr == [src |-> "TypeError", n |-> 0, status |-> 0]

\* What a resolved facade call returns (response.data).
NoResult == [kind |-> "none", access_token |-> None, refresh_token |-> None]
PlainData == [kind |-> "data", access_token |-> None, refresh_token |-> None]
TokenData(a, r) == [kind |-> "tokens", access_token |-> a, refresh_token |-> r]

VARIABLES
    access,            \* localStorage['access_token']
    refresh,           \* localStorage['refresh_token']
    location,          \* window.location.href ("app" until redirected)
    pc,                \* per request: idle, sent, refreshing, resolved, rejected
    op,                \* per request: the operation that issued it
    hdr,               \* per request: Authorization header of its config
    retry,             \* per request: originalRequest._retry
    refreshRead,       \* per request: const refreshToken (api.ts line 56)
    logoutBody,        \* per request: refresh_token sent by auth.logout
    err,               \* per request: the error its caller received
    result,            \* per request: the value its caller received
    lastStatus,        \* per request: status of the last answer to a dispatch
    nDispatch,         \* per request: dispatches made (history)
    nRefresh,          \* per request: refresh calls made (history)
    accessAtDispatch,  \* per request: access token stored at its last dispatch
    issued,            \* per request: access token its refresh call returned
    apiUrl,            \* process.env.REACT_APP_API_URL of the build
    sentOrigin,        \* per request: origin its last dispatch went to
    refreshUrl,        \* per request: origin and path of its refresh call
    refreshHdr,        \* per request: Authorization header of its refresh call
    \* An analysis page (pages/EmailAnalysis.tsx, LifeBalance.tsx, Memory.tsx)
    page,              \* the mounted page component ("none" before mounting)
    pgForm,            \* its input state (email / data, newActivity, newGoal / session)
    pgLoading,         \* its loading state
    pgResult,          \* its result state (null or the aggregated result)
    pgError,           \* its error state (null or the failure message)
    pgBatch,           \* number of handleAnalyze runs so far (history)
    pgCalls,           \* the facade calls of the latest run, with arguments
    pgStatus,          \* per call of the latest run: pending, resolved, rejected
    pgAwait,           \* the latest run's Promise.all: none, waiting, fulfilled, rejected
    pgOrphans,         \* calls of earlier runs still in flight
    \* One facade call (services/api.ts, lines 77-201)
    fcState,           \* idle, awaiting, returned, thrown
    fcOp,              \* the facade operation called
    fcArgs,            \* its arguments
    fcRequest,         \* the request it handed to the client
    fcCount,           \* requests it handed to the client (history)
    fcData,            \* the response body the client resolved with
    fcError,           \* the error the client rejected with
    fcReturn,          \* what the facade returned
    fcThrown,          \* what the facade threw
    \* The session context (AuthProvider)
    user,              \* the signed-in profile, or null
    authLoading,       \* the provider's loading flag
    authError,         \* the provider's error message, or null
    sPc,               \* the facade call the running operation awaits
    sOp,               \* the operation running or run last
    sOutcome,          \* pending, resolved or rejected: the operation's promise
    sFailed,           \* the operation's awaited facade call rejected (history)
    nOps,              \* operations started (history)
    nDashboard,        \* navigations to the dashboard (history)
    nLoginNav,         \* navigate('/login') calls of the context (history)
    expired,           \* the last step met the client's session-expired signal
    caPc,              \* checkAuth: unmounted, auth.getCurrentUser, done
    caRequests,        \* profile requests made by checkAuth (history)
    caToken,           \* an access token was stored when checkAuth ran (history)
    caFailed           \* checkAuth's profile request failed (history)

clientVars == << access, refresh, location, pc, op, hdr, retry, refreshRead,
                 logoutBody, err, result, lastStatus, nDispatch, nRefresh,
                 accessAtDispatch, issued, apiUrl, sentOrigin, refreshUrl,
                 refreshHdr >>

pageVars == << page, pgForm, pgLoading, pgResult, pgError, pgBatch, pgCalls,
               pgStatus, pgAwait, pgOrphans >>

\* The client's state other than the token store.
requestVars == << location, pc, op, hdr, retry, refreshRead, logoutBody, err,
                 result, lastStatus, nDispatch, nRefresh, accessAtDispatch,
                 issued, apiUrl, sentOrigin, refreshUrl, refreshHdr >>

facadeVars == << fcState, fcOp, fcArgs, fcRequest, fcCount, fcData, fcError,
                 fcReturn, fcThrown >>

\* The client's request slots.
slotVars == << pc, op, hdr, retry, refreshRead, logoutBody, err, result,
              lastStatus, nDispatch, nRefresh, accessAtDispatch, issued,
              apiUrl, sentOrigin, refreshUrl, refreshHdr >>

sessionVars == << user, authLoading, authError, sPc, sOp, sOutcome, sFailed,
                  nOps, nDashboard, nLoginNav, expired, caPc, caRequests,
                  caToken, caFailed >>

vars == << clientVars, pageVars, facadeVars, sessionVars >>

Done == {"resolved", "rejected"}

\* --------------------------------------------------- pure parts of the code

\* Request interceptor: attach the bearer header when a token is stored;
\* otherwise the config's headers are left as they are.
AttachAuthAlways(h, token) == Bearer(token)

AttachAuth(h, token) == IF token # None THEN Bearer(token) ELSE h

\* axios.create({ baseURL: process.env.REACT_APP_API_URL || ... }): the
\* origin every call made through api goes to.
BaseURL(env) == IF env # Unset THEN env ELSE DefaultOrigin

\* axios.post('/api/auth/refresh', ...) is made on the axios default
\* instance, which has no baseURL: the browser resolves the relative URL
\* against the origin the page was loaded from.
RefreshUrl(env) == [origin |-> PageOrigin, path |-> "/api/auth/refresh"]

\* The default instance has no interceptors either: the refresh call
\* carries no Authorization header.
RefreshCallHeaderFromStore(token) == AttachAuth(NoHeader, token)

RefreshCallHeader(token) == NoHeader

\* The response interceptor's condition for refresh-and-retry.
ShouldRefreshIgnoringMarker(status, retried) == status = Unauthorized

ShouldRefreshAnyStatus(status, retried) == ~retried

ShouldRefresh(status, retried) == status = Unauthorized /\ ~retried

\* What the client rejects with when the refresh call fails: catch (err).
RefreshRejectionOriginal(original, refreshErr) == original

RefreshRejection(original, refreshErr) == refreshErr

\* The store after the catch block's two removeItem calls.
ClearedStoreKeepsRefresh == [access_token |-> None, refresh_token |-> refresh]

ClearedStore == [access_token |-> None, refresh_token |-> None]

\* The store after a successful refresh: only access_token is written.
StoreAfterRefreshNotWritten(newAccess) == [access_token |-> access, refresh_token |-> refresh]

StoreAfterRefresh(newAccess) == [access_token |-> newAccess, refresh_token |-> refresh]

\* The store after auth.login / auth.register resolve: they return
\* response.data and write nothing.
StoreAfterLogin(data) == [access_token |-> access, refresh_token |-> refresh]

\* React state that holds no value yet (useState(null)).
Null == << >>

\* ------------------------------------------------------------------ Init
\* localStorage is durable: the page starts logged out (no tokens) or with
\* the pair a previous session left.
ClientInit ==
    /\ \E s \in {[a |-> None, r |-> None]} \cup
                 {[a |-> a, r |-> r] : a \in {"a1"}, r \in RefreshTokens} :
           access = s.a /\ refresh = s.r
    /\ location = "app"
    /\ pc = [r \in Req |-> "idle"]
    /\ op = [r \in Req |-> "call"]
    /\ hdr = [r \in Req |-> NoHeader]
    /\ retry = [r \in Req |-> FALSE]
    /\ refreshRead = [r \in Req |-> None]
    /\ logoutBody = [r \in Req |-> None]
    /\ err = [r \in Req |-> NoError]
    /\ result = [r \in Req |-> NoResult]
    /\ lastStatus = [r \in Req |-> 0]
    /\ nDispatch = [r \in Req |-> 0]
    /\ nRefresh = [r \in Req |-> 0]
    /\ accessAtDispatch = [r \in Req |-> None]
    /\ issued = [r \in Req |-> None]
    /\ sentOrigin = [r \in Req |-> None]
    /\ refreshUrl = [r \in Req |-> [origin |-> None, path |-> None]]
    /\ refreshHdr = [r \in Req |-> NoHeader]

\* ---------------------------------------------------------------- actions

\* A facade issues its request: api.post / api.get runs the request
\* interceptor and dispatches.  auth.logout first reads the refresh token
\* for its body.  Requests are numbered in the order they are issued.
Issue(r, o) ==
    /\ pc[r] = "idle"
    /\ \A q \in Req : q < r => pc[q] # "idle"
    /\ pc' = [pc EXCEPT ![r] = "sent"]
    /\ op' = [op EXCEPT ![r] = o]
    /\ logoutBody' = [logoutBody EXCEPT ![r] = IF o = "logout" THEN refresh ELSE None]
    /\ hdr' = [hdr EXCEPT ![r] = AttachAuth(NoHeader, access)]
    /\ accessAtDispatch' = [accessAtDispatch EXCEPT ![r] = access]
    /\ nDispatch' = [nDispatch EXCEPT ![r] = 1]
    /\ sentOrigin' = [sentOrigin EXCEPT ![r] = BaseURL(apiUrl)]
    /\ UNCHANGED << access, refresh, location, retry, refreshRead, err,
                    result, lastStatus, nRefresh, issued, apiUrl, refreshUrl,
                    refreshHdr >>

\* A dispatch is answered 2xx: the response interceptor passes the response
\* on and the facade returns response.data.  auth.logout then removes both
\* tokens; auth.login and auth.register return the token pair.
Respond2xx(r, data) ==
    /\ pc[r] = "sent"
    /\ IF op[r] \in {"login", "register"} THEN data.kind = "tokens" ELSE data = PlainData
    /\ pc' = [pc EXCEPT ![r] = "resolved"]
    /\ lastStatus' = [lastStatus EXCEPT ![r] = 200]
    /\ result' = [result EXCEPT ![r] = IF op[r] = "logout" THEN NoResult ELSE data]
    /\ LET s == IF op[r] = "logout" THEN ClearedStore
                ELSE IF op[r] \in {"login", "register"} THEN StoreAfterLogin(data)
                ELSE [access_token |-> access, refresh_token |-> refresh]
       IN  access' = s.access_token /\ refresh' = s.refresh_token
    /\ UNCHANGED << location, op, hdr, retry, refreshRead, logoutBody, err,
                    nDispatch, nRefresh, accessAtDispatch, issued, apiUrl,
                    sentOrigin, refreshUrl, refreshHdr >>

\* A dispatch is answered with an error status: the response interceptor's
\* error handler.  A 401 on a request not yet retried marks it, reads the
\* refresh token and issues the refresh call (axios.post, which goes through
\* neither interceptor); anything else is rejected as it came.
RespondError(r, s) ==
    /\ pc[r] = "sent"
    /\ lastStatus' = [lastStatus EXCEPT ![r] = s]
    /\ IF ShouldRefresh(s, retry[r])
       THEN /\ retry' = [retry EXCEPT ![r] = TRUE]
            /\ refreshRead' = [refreshRead EXCEPT ![r] = refresh]
            /\ nRefresh' = [nRefresh EXCEPT ![r] = @ + 1]
            /\ refreshUrl' = [refreshUrl EXCEPT ![r] = RefreshUrl(apiUrl)]
            /\ refreshHdr' = [refreshHdr EXCEPT ![r] = RefreshCallHeader(access)]
            /\ pc' = [pc EXCEPT ![r] = "refreshing"]
            /\ UNCHANGED err
       ELSE /\ pc' = [pc EXCEPT ![r] = "rejected"]
            /\ err' = [err EXCEPT ![r] = DispatchError(nDispatch[r], s)]
            /\ UNCHANGED << retry, refreshRead, nRefresh, refreshUrl,
                            refreshHdr >>
    /\ UNCHANGED << access, refresh, location, op, hdr, logoutBody, result,
                    nDispatch, accessAtDispatch, issued, apiUrl, sentOrigin >>

\* A dispatch fails without any HTTP response (network failure):
\* error.response is undefined, so the handler's error.response.status
\* throws and the async handler rejects with that TypeError.
RespondNoResponse(r) ==
    /\ pc[r] = "sent"
    /\ lastStatus' = [lastStatus EXCEPT ![r] = 0]
    /\ pc' = [pc EXCEPT ![r] = "rejected"]
    /\ err' = [err EXCEPT ![r] = TypeErr]
    /\ UNCHANGED << access, refresh, location, op, hdr, retry, refreshRead,
                    logoutBody, result, nDispatch, nRefresh,
                    accessAtDispatch, issued, apiUrl, sentOrigin, refreshUrl,
                    refreshHdr >>

\* The refresh call succeeds: store the new access token, set the header of
\* the original config and hand it to api(), whose request interceptor runs
\* again before the dispatch.  The backend exchanges a refresh token for an
\* access token, so a call that carried none does not succeed.
RefreshSuccess(r, t) ==
    /\ pc[r] = "refreshing"
    /\ refreshRead[r] # None
    /\ LET s == StoreAfterRefresh(t)
       IN  /\ access' = s.access_token
           /\ refresh' = s.refresh_token
           /\ hdr' = [hdr EXCEPT ![r] = AttachAuth(Bearer(t), s.access_token)]
           /\ accessAtDispatch' = [accessAtDispatch EXCEPT ![r] = s.access_token]
    /\ issued' = [issued EXCEPT ![r] = t]
    /\ nDispatch' = [nDispatch EXCEPT ![r] = @ + 1]
    /\ pc' = [pc EXCEPT ![r] = "sent"]
    /\ sentOrigin' = [sentOrigin EXCEPT ![r] = BaseURL(apiUrl)]
    /\ UNCHANGED << location, op, retry, refreshRead, logoutBody, err, result,
                    lastStatus, nRefresh, apiUrl, refreshUrl, refreshHdr >>

\* The refresh call fails: the catch block removes both tokens, redirects to
\* /login and rejects with the caught error.
RefreshFailure(r, s) ==
    /\ pc[r] = "refreshing"
    /\ access' = ClearedStore.access_token
    /\ refresh' = ClearedStore.refresh_token
    /\ location' = "/login"
    /\ pc' = [pc EXCEPT ![r] = "rejected"]
    /\ err' = [err EXCEPT ![r] =
                  RefreshRejection(DispatchError(nDispatch[r], lastStatus[r]),
                                   RefreshError(s))]
    /\ UNCHANGED << op, hdr, retry, refreshRead, logoutBody, result,
                    lastStatus, nDispatch, nRefresh, accessAtDispatch, issued,
                    apiUrl, sentOrigin, refreshUrl, refreshHdr >>

\* No page component is mounted when the application starts.
PageInit ==
    /\ page = "none"
    /\ pgForm = << >>
    /\ pgLoading = FALSE
    /\ pgResult = Null
    /\ pgError = Null
    /\ pgBatch = 0
    /\ pgCalls = << >>
    /\ pgStatus = << >>
    /\ pgAwait = "none"
    /\ pgOrphans = 0

\* No facade call has been made.
FacadeInit ==
    /\ fcState = "idle"
    /\ fcOp = "none"
    /\ fcArgs = << >>
    /\ fcRequest = [method |-> "none", path |-> "none", body |-> << >>]
    /\ fcCount = 0
    /\ fcData = "none"
    /\ fcError = NoError
    /\ fcReturn = "none"
    /\ fcThrown = NoError

\* useState(null), useState(true), useState(null); nothing has run yet.
SessionInit ==
    /\ user = None
    /\ authLoading = TRUE
    /\ authError = None
    /\ sPc = "idle"
    /\ sOp = "none"
    /\ sOutcome = "none"
    /\ sFailed = FALSE
    /\ nOps = 0
    /\ nDashboard = 0
    /\ nLoginNav = 0
    /\ expired = FALSE
    /\ caPc = "unmounted"
    /\ caRequests = 0
    /\ caToken = FALSE
    /\ caFailed = FALSE

\* The application as served by any build, default or overridden.
AnyBuild == ClientInit /\ PageInit /\ FacadeInit /\ SessionInit

\* The development build: REACT_APP_API_URL is not set.
Init == AnyBuild /\ apiUrl = Unset

\* The HTTP client on its own, under any callers.
Next ==
    \/ \E r \in Req, o \in Ops : Issue(r, o)
           /\ UNCHANGED << pageVars, facadeVars, sessionVars >>
    \/ \E r \in Req, a \in AccessTokens, k \in RefreshTokens :
           Respond2xx(r, TokenData(a, k)) /\ UNCHANGED << pageVars, facadeVars, sessionVars >>
    \/ \E r \in Req : Respond2xx(r, PlainData)
           /\ UNCHANGED << pageVars, facadeVars, sessionVars >>
    \/ \E r \in Req, s \in ErrorStatuses : RespondError(r, s)
           /\ UNCHANGED << pageVars, facadeVars, sessionVars >>
    \/ \E r \in Req : RespondNoResponse(r)
           /\ UNCHANGED << pageVars, facadeVars, sessionVars >>
    \/ \E r \in Req, t \in AccessTokens : RefreshSuccess(r, t)
           /\ UNCHANGED << pageVars, facadeVars, sessionVars >>
    \/ \E r \in Req, s \in RefreshFailures : RefreshFailure(r, s)
           /\ UNCHANGED << pageVars, facadeVars, sessionVars >>

Spec == Init /\ [][Next]_vars

\* The network answers the call request r is waiting for: its dispatch or
\* its refresh call settles.
Settle(r) ==
    \/ \E a \in AccessTokens, k \in RefreshTokens : Respond2xx(r, TokenData(a, k))
    \/ Respond2xx(r, PlainData)
    \/ \E s \in ErrorStatuses : RespondError(r, s)
    \/ RespondNoResponse(r)
    \/ \E t \in AccessTokens : RefreshSuccess(r, t)
    \/ \E s \in RefreshFailures : RefreshFailure(r, s)

\* The operations whose requests differ in what the client does with them:
\* auth.logout clears the store when it resolves; login and register
\* store nothing and pass through the client like any other call.
FairOps == {"logout", "call"}

FairNext ==
    \/ \E r \in Req, o \in FairOps : Issue(r, o)
           /\ UNCHANGED << pageVars, facadeVars, sessionVars >>
    \/ \E r \in Req : Respond2xx(r, PlainData)
           /\ UNCHANGED << pageVars, facadeVars, sessionVars >>
    \/ \E r \in Req, s \in ErrorStatuses : RespondError(r, s)
           /\ UNCHANGED << pageVars, facadeVars, sessionVars >>
    \/ \E r \in Req : RespondNoResponse(r)
           /\ UNCHANGED << pageVars, facadeVars, sessionVars >>
    \/ \E r \in Req, t \in AccessTokens : RefreshSuccess(r, t)
           /\ UNCHANGED << pageVars, facadeVars, sessionVars >>
    \/ \E r \in Req, s \in RefreshFailures : RefreshFailure(r, s)
           /\ UNCHANGED << pageVars, facadeVars, sessionVars >>

\* The HTTP client when every network call eventually settles.
SpecFair ==
    /\ Init
    /\ [][FairNext]_vars
    /\ \A r \in Req :
           WF_vars(Settle(r) /\ UNCHANGED << pageVars, facadeVars, sessionVars >>)

\* The HTTP client of any build.
OriginStart == AnyBuild /\ apiUrl \in ApiUrls

SpecOrigin == OriginStart /\ [][Next]_vars

\* ------------------------------------------------------- analysis pages
\* Text is a sequence of characters, so that emptiness and trimming are
\* what they are in the code.
Empty == << >>

Pages == {"email", "lifeBalance", "memory"}

\* Longest activity / goal list the model builds.
MaxList == 2

\* handleAnalyze runs in one behaviour.
MaxBatch == 2

\* The count passed to generateReviewQuestions (Memory.tsx line 53).
QuestionCount == 5

\* The initial session of the memory page (Memory.tsx lines 27 and 29).
InitialDuration == 30
InitialPerformance == 7

\* String.prototype.trim: strip the blanks at both ends.
RECURSIVE TrimLeft(_)
TrimLeft(t) == IF t # << >> /\ Head(t) = " " THEN TrimLeft(Tail(t)) ELSE t

RECURSIVE TrimRight(_)
TrimRight(t) ==
    IF t # << >> /\ t[Len(t)] = " " THEN TrimRight(SubSeq(t, 1, Len(t) - 1)) ELSE t

TrimLeftOnly(t) == TrimLeft(t)

Trim(t) == TrimRight(TrimLeft(t))

\* prev.activities.filter((_, i) => i !== index), with index counted from 0.
RemoveAtOneBased(list, index) ==
    SubSeq(list, 1, index - 1) \o SubSeq(list, index + 1, Len(list))

RemoveAt(list, index) ==
    SubSeq(list, 1, index) \o SubSeq(list, index + 2, Len(list))

\* Number(value) for the value of an <input type="number">, which is a
\* string of digits, or empty when the field holds no valid number.
DigitValue(c) ==
    CASE c = "0" -> 0 [] c = "1" -> 1 [] c = "2" -> 2 [] c = "3" -> 3
      [] c = "4" -> 4 [] c = "5" -> 5 [] c = "6" -> 6 [] c = "7" -> 7
      [] c = "8" -> 8 [] c = "9" -> 9

RECURSIVE ToNumber(_)
ToNumber(t) ==
    IF t = << >> THEN 0
    ELSE 10 * ToNumber(SubSeq(t, 1, Len(t) - 1)) + DigitValue(t[Len(t)])

\* The useState initial values of each page component.
InitialForm(p) ==
    CASE p = "email" -> [subject |-> Empty, content |-> Empty]
      [] p = "lifeBalance" ->
            [activities |-> << >>, schedule |-> Empty, goals |-> << >>,
             newActivity |-> Empty, newGoal |-> Empty]
      [] p = "memory" ->
            [content |-> Empty, duration |-> InitialDuration,
             method |-> <<"r">>, performance |-> InitialPerformance]

\* The session record the memory page passes on (its four fields).
Session(f) ==
    [content |-> f.content, duration |-> f.duration, method |-> f.method,
     performance |-> f.performance]

\* The facade calls handleAnalyze hands to Promise.all, in order.
LifeBalanceCallsWithGoals(f) ==
    << [fn |-> "calculateScores", args |-> <<f.activities>>],
       [fn |-> "generateInsights", args |-> <<f.activities>>],
       [fn |-> "getRecommendations", args |-> <<f.goals>>],
       [fn |-> "optimizeSchedule", args |-> <<f.activities, f.schedule>>] >>

LifeBalanceCalls(f) ==
    << [fn |-> "calculateScores", args |-> <<f.activities>>],
       [fn |-> "generateInsights", args |-> <<f.activities>>],
       [fn |-> "getRecommendations", args |-> <<f.activities>>],
       [fn |-> "optimizeSchedule", args |-> <<f.activities, f.schedule>>] >>

EmailCalls(f) ==
    << [fn |-> "summarize", args |-> <<f.content, f.subject>>],
       [fn |-> "analyzeSentiment", args |-> <<f.content, f.subject>>],
       [fn |-> "classifyPriority", args |-> <<f.content, f.subject>>],
       [fn |-> "extractActions", args |-> <<f.content, f.subject>>],
       [fn |-> "generateReplies", args |-> <<f.content, f.subject>>] >>

MemoryCallsWithoutCount(f) ==
    << [fn |-> "identifyLearningStyle", args |-> << <<Session(f)>> >>],
       [fn |-> "calculatePerformanceMetrics", args |-> << <<Session(f)>> >>],
       [fn |-> "getStudyRecommendations", args |-> << <<Session(f)>> >>],
       [fn |-> "extractKeyConceptsFromContent", args |-> <<f.content, f.method>>],
       [fn |-> "generateReviewQuestions", args |-> <<f.content, f.method>>],
       [fn |-> "analyzeKnowledgeGaps", args |-> << <<Session(f)>> >>] >>

MemoryCalls(f) ==
    << [fn |-> "identifyLearningStyle", args |-> << <<Session(f)>> >>],
       [fn |-> "calculatePerformanceMetrics", args |-> << <<Session(f)>> >>],
       [fn |-> "getStudyRecommendations", args |-> << <<Session(f)>> >>],
       [fn |-> "extractKeyConceptsFromContent", args |-> <<f.content, f.method>>],
       [fn |-> "generateReviewQuestions", args |-> <<f.content, f.method, QuestionCount>>],
       [fn |-> "analyzeKnowledgeGaps", args |-> << <<Session(f)>> >>] >>

PageCalls(p, f) ==
    CASE p = "email" -> EmailCalls(f)
      [] p = "lifeBalance" -> LifeBalanceCalls(f)
      [] p = "memory" -> MemoryCalls(f)

\* The field of each call's response that setResult reads, and the field of
\* the result it is stored under, in the order of the calls.
ResponseFields(p) ==
    CASE p = "email" ->
            <<"summary", "sentiment", "priority", "action_items", "reply_suggestions">>
      [] p = "lifeBalance" ->
            <<"overall_score", "insights", "recommendations", "optimized_schedule">>
      [] p = "memory" ->
            <<"learning_style", "metrics", "recommendations", "concepts",
              "questions", "gaps">>

ResultFields(p) ==
    CASE p = "email" ->
            <<"summary", "sentiment", "priority", "action_items", "reply_suggestions">>
      [] p = "lifeBalance" ->
            <<"balance_score", "insights", "recommendations", "optimized_schedule">>
      [] p = "memory" ->
            <<"learning_style", "performance_metrics", "recommendations",
              "key_concepts", "review_questions", "knowledge_gaps">>

\* The static failure message of each page.
FailureMessage(p) ==
    CASE p = "email" -> "Failed to analyze email. Please try again."
      [] p = "lifeBalance" -> "Failed to analyze life balance. Please try again."
      [] p = "memory" -> "Failed to analyze memory and learning. Please try again."

\* What the backend answers to call i of run b: one field, whose value is
\* particular to that call and run.
Response(p, i, b) ==
    [k \in {ResponseFields(p)[i]} |-> <<ResponseFields(p)[i], b>>]

\* The object handed to setResult: one field per call, read from that
\* call's response.
BuildResult(p, responses) ==
    [i \in 1..Len(ResultFields(p)) |->
        <<ResultFields(p)[i], responses[i][ResponseFields(p)[i]]>>]

\* Promise.all fulfils when every promise has, and rejects at the first
\* rejection.
AnyFulfilled(st) == \E i \in 1..Len(st) : st[i] = "resolved"

AllFulfilled(st) == \A i \in 1..Len(st) : st[i] = "resolved"

\* The page's minimum-input rule, as its button tests it.
InputComplete(p, f) ==
    CASE p = "email" -> f.content # Empty
      [] p = "lifeBalance" ->
            Len(f.activities) # 0 /\ f.schedule # Empty /\ Len(f.goals) # 0
      [] p = "memory" -> f.content # Empty
      [] OTHER -> FALSE

\* The disabled attribute of the page's primary button.
Disabled(p, f, l) == l \/ ~InputComplete(p, f)

\* The calls of the page that have not settled, whichever run made them.
InFlight == pgOrphans + Cardinality({i \in 1..Len(pgStatus) : pgStatus[i] = "pending"})

\* The router mounts a page component: its state is the useState defaults.
Mount(p) ==
    /\ page = "none"
    /\ page' = p
    /\ pgForm' = InitialForm(p)
    /\ UNCHANGED << pgLoading, pgResult, pgError, pgBatch, pgCalls, pgStatus,
                    pgAwait, pgOrphans >>

\* handleInputChange of the email and memory pages for a text field, and
\* handleScheduleChange, setNewActivity, setNewGoal of the life-balance page.
ChangeText(name, value) ==
    /\ page # "none"
    /\ name \in DOMAIN pgForm
    /\ name \in {"subject", "content", "method", "schedule", "newActivity", "newGoal"}
    /\ pgForm[name] # value
    /\ pgForm' = [pgForm EXCEPT ![name] = value]
    /\ UNCHANGED << page, pgLoading, pgResult, pgError, pgBatch, pgCalls,
                    pgStatus, pgAwait, pgOrphans >>

\* The form after addActivity / addGoal: the trimmed input is appended and
\* the input cleared, unless the input trims to nothing.
AddedForm(f, list, input) ==
    IF Trim(f[input]) # Empty
    THEN [f EXCEPT ![list] = Append(@, Trim(f[input])), ![input] = Empty]
    ELSE f

\* handleInputChange of the memory page for duration and performance.
ChangeNumber(name, text) ==
    /\ page = "memory"
    /\ name \in {"duration", "performance"}
    /\ pgForm[name] # ToNumber(text)
    /\ pgForm' = [pgForm EXCEPT ![name] = ToNumber(text)]
    /\ UNCHANGED << page, pgLoading, pgResult, pgError, pgBatch, pgCalls,
                    pgStatus, pgAwait, pgOrphans >>

\* addActivity / addGoal.
AddItem(list, input) ==
    /\ page = "lifeBalance"
    /\ Len(pgForm[list]) < MaxList
    /\ pgForm' = AddedForm(pgForm, list, input)
    /\ UNCHANGED << page, pgLoading, pgResult, pgError, pgBatch, pgCalls,
                    pgStatus, pgAwait, pgOrphans >>

\* removeActivity / removeGoal, index counted from 0.
RemoveItem(list, index) ==
    /\ page = "lifeBalance"
    /\ index < Len(pgForm[list])
    /\ pgForm' = [pgForm EXCEPT ![list] = RemoveAt(@, index)]
    /\ UNCHANGED << page, pgLoading, pgResult, pgError, pgBatch, pgCalls,
                    pgStatus, pgAwait, pgOrphans >>

\* A click on the primary button (which does nothing when it is disabled):
\* handleAnalyze up to its await.  The calls of an earlier run that are
\* still pending stay in flight; nothing waits for them any more.
HandleAnalyze ==
    /\ page # "none"
    /\ ~Disabled(page, pgForm, pgLoading)
    /\ pgBatch < MaxBatch
    /\ pgLoading' = TRUE
    /\ pgError' = Null
    /\ pgBatch' = pgBatch + 1
    /\ pgCalls' = PageCalls(page, pgForm)
    /\ pgStatus' = [i \in 1..Len(PageCalls(page, pgForm)) |-> "pending"]
    /\ pgAwait' = "waiting"
    /\ pgOrphans' = InFlight
    /\ UNCHANGED << page, pgForm, pgResult >>

\* Call i of the latest run resolves.  When it is the last one and the run
\* is still awaited, handleAnalyze continues: setResult, then finally.
CallResolves(i) ==
    /\ i \in 1..Len(pgStatus)
    /\ pgStatus[i] = "pending"
    /\ pgStatus' = [pgStatus EXCEPT ![i] = "resolved"]
    /\ IF pgAwait = "waiting" /\ AllFulfilled(pgStatus')
       THEN /\ pgResult' = BuildResult(page,
                               [j \in 1..Len(pgStatus) |-> Response(page, j, pgBatch)])
            /\ pgLoading' = FALSE
            /\ pgAwait' = "fulfilled"
       ELSE UNCHANGED << pgResult, pgLoading, pgAwait >>
    /\ UNCHANGED << page, pgForm, pgError, pgBatch, pgCalls, pgOrphans >>

\* Call i of the latest run rejects.  At the first rejection of an awaited
\* run, handleAnalyze continues in its catch: setError, then finally.
CallRejects(i) ==
    /\ i \in 1..Len(pgStatus)
    /\ pgStatus[i] = "pending"
    /\ pgStatus' = [pgStatus EXCEPT ![i] = "rejected"]
    /\ IF pgAwait = "waiting"
       THEN /\ pgError' = FailureMessage(page)
            /\ pgLoading' = FALSE
            /\ pgAwait' = "rejected"
       ELSE UNCHANGED << pgError, pgLoading, pgAwait >>
    /\ UNCHANGED << page, pgForm, pgResult, pgBatch, pgCalls, pgOrphans >>

\* A call of an earlier run settles; nothing is waiting for it.
OrphanSettles ==
    /\ pgOrphans > 0
    /\ pgOrphans' = pgOrphans - 1
    /\ UNCHANGED << page, pgForm, pgLoading, pgResult, pgError, pgBatch,
                    pgCalls, pgStatus, pgAwait >>

\* Texts typed in this specification.
PageTexts == {Empty, <<"a">>}

PageNext ==
    \/ \E p \in Pages : Mount(p) /\ UNCHANGED << clientVars, facadeVars, sessionVars >>
    \/ \E name \in {"content", "schedule", "newActivity", "newGoal"}, v \in PageTexts :
           ChangeText(name, v) /\ UNCHANGED << clientVars, facadeVars, sessionVars >>
    \/ AddItem("activities", "newActivity") /\ UNCHANGED << clientVars, facadeVars, sessionVars >>
    \/ AddItem("goals", "newGoal") /\ UNCHANGED << clientVars, facadeVars, sessionVars >>
    \/ \E i \in 0..(MaxList - 1) : RemoveItem("activities", i) /\ UNCHANGED << clientVars, facadeVars, sessionVars >>
    \/ \E i \in 0..(MaxList - 1) : RemoveItem("goals", i) /\ UNCHANGED << clientVars, facadeVars, sessionVars >>
    \/ HandleAnalyze /\ UNCHANGED << clientVars, facadeVars, sessionVars >>
    \/ \E i \in 1..6 : CallResolves(i) /\ UNCHANGED << clientVars, facadeVars, sessionVars >>
    \/ \E i \in 1..6 : CallRejects(i) /\ UNCHANGED << clientVars, facadeVars, sessionVars >>
    \/ OrphanSettles /\ UNCHANGED << clientVars, facadeVars, sessionVars >>

\* Texts typed into the inputs of the life-balance page: blank ones, and
\* two different items with and without blanks around them.
ItemTexts == {Empty, <<" ">>, <<"a">>, <<"b">>, <<" ", "a", " ">>}

\* The lists of the life-balance page on their own.
ListNext ==
    \/ Mount("lifeBalance")
           /\ UNCHANGED << clientVars, facadeVars, sessionVars >>
    \/ \E name \in {"schedule", "newActivity", "newGoal"}, v \in ItemTexts :
           ChangeText(name, v)
               /\ UNCHANGED << clientVars, facadeVars, sessionVars >>
    \/ AddItem("activities", "newActivity")
           /\ UNCHANGED << clientVars, facadeVars, sessionVars >>
    \/ AddItem("goals", "newGoal")
           /\ UNCHANGED << clientVars, facadeVars, sessionVars >>
    \/ \E i \in 0..(MaxList - 1) : RemoveItem("activities", i)
           /\ UNCHANGED << clientVars, facadeVars, sessionVars >>
    \/ \E i \in 0..(MaxList - 1) : RemoveItem("goals", i)
           /\ UNCHANGED << clientVars, facadeVars, sessionVars >>

\* One analysis page under any user and any backend answers.  The pages are
\* protected routes; the token store plays no part in what they do.
PageStart == Init /\ access # None

SpecPage == PageStart /\ [][PageNext]_vars

\* Values of the number inputs and options of the method select.
NumberTexts == {Empty, <<"4", "5">>}
Methods == {<<"r">>, <<"p">>}

\* The memory page while its analyses succeed.
MemoryNext ==
    \/ Mount("memory")
           /\ UNCHANGED << clientVars, facadeVars, sessionVars >>
    \/ \E v \in PageTexts : ChangeText("content", v)
           /\ UNCHANGED << clientVars, facadeVars, sessionVars >>
    \/ \E v \in Methods : ChangeText("method", v)
           /\ UNCHANGED << clientVars, facadeVars, sessionVars >>
    \/ \E name \in {"duration", "performance"}, t \in NumberTexts :
           ChangeNumber(name, t)
               /\ UNCHANGED << clientVars, facadeVars, sessionVars >>
    \/ HandleAnalyze /\ UNCHANGED << clientVars, facadeVars, sessionVars >>
    \/ \E i \in 1..6 : CallResolves(i)
           /\ UNCHANGED << clientVars, facadeVars, sessionVars >>

SpecMemory == PageStart /\ [][MemoryNext]_vars

\* The life-balance page while the user edits its lists.
SpecLists == PageStart /\ [][ListNext]_vars

\* ------------------------------------------------------------ API facades
\* One call of one facade operation (auth, emailAI, lifeBalanceAI, memoryAI)
\* on top of the client: the request it hands to api.post / api.get, and
\* what it returns or throws once the client has settled.

\* Argument values; "undefined" is an optional argument left out.
ArgValues == {"v1", "undefined"}

\* What a function without a return value yields.
Undefined == "undefined"

\* Response bodies the backend may send.
Bodies == {"d1", "d2"}

\* Errors the client may reject with.
ClientErrors ==
    {DispatchError(1, 500), DispatchError(2, Unauthorized), TypeErr} \cup
    {RefreshError(s) : s \in RefreshFailures}

\* The request each facade builds: method, path, and the keys of its body,
\* each key holding the argument of that name (login and register pass
\* their one object argument on as the body).
FacadeTable ==
    [login |-> [method |-> "POST", path |-> "/api/auth/login", keys |-> {"email", "password"}],
     register |-> [method |-> "POST", path |-> "/api/auth/register", keys |-> {"email", "password", "name"}],
     logout |-> [method |-> "POST", path |-> "/api/auth/logout", keys |-> {}],
     getCurrentUser |-> [method |-> "GET", path |-> "/api/auth/me", keys |-> {}],
     requestPasswordReset |-> [method |-> "POST", path |-> "/api/auth/password-reset-request", keys |-> {"email"}],
     resetPassword |-> [method |-> "POST", path |-> "/api/auth/password-reset", keys |-> {"token", "password"}],
     summarize |-> [method |-> "POST", path |-> "/api/email/summarize", keys |-> {"content", "subject"}],
     analyzeSentiment |-> [method |-> "POST", path |-> "/api/email/sentiment", keys |-> {"content", "subject"}],
     classifyPriority |-> [method |-> "POST", path |-> "/api/email/priority", keys |-> {"content", "subject"}],
     extractActions |-> [method |-> "POST", path |-> "/api/email/actions", keys |-> {"content", "subject"}],
     generateReplies |-> [method |-> "POST", path |-> "/api/email/replies", keys |-> {"content", "subject"}],
     calculateScores |-> [method |-> "POST", path |-> "/api/life-balance/scores", keys |-> {"activities"}],
     generateInsights |-> [method |-> "POST", path |-> "/api/life-balance/insights", keys |-> {"activities"}],
     getRecommendations |-> [method |-> "POST", path |-> "/api/life-balance/recommendations", keys |-> {"activities"}],
     optimizeSchedule |-> [method |-> "POST", path |-> "/api/life-balance/optimize", keys |-> {"activities", "schedule"}],
     identifyLearningStyle |-> [method |-> "POST", path |-> "/api/memory/learning-style", keys |-> {"sessions"}],
     calculatePerformanceMetrics |-> [method |-> "POST", path |-> "/api/memory/performance", keys |-> {"sessions"}],
     getStudyRecommendations |-> [method |-> "POST", path |-> "/api/memory/recommendations", keys |-> {"sessions"}],
     extractKeyConceptsFromContent |-> [method |-> "POST", path |-> "/api/memory/concepts", keys |-> {"content", "type"}],
     generateReviewQuestions |-> [method |-> "POST", path |-> "/api/memory/questions", keys |-> {"content", "type", "count"}],
     analyzeKnowledgeGaps |-> [method |-> "POST", path |-> "/api/memory/gaps", keys |-> {"sessions"}],
     getLearningStyles |-> [method |-> "GET", path |-> "/api/memory/learning-styles", keys |-> {}],
     getMemoryTechniques |-> [method |-> "GET", path |-> "/api/memory/techniques", keys |-> {}]]

Facades == DOMAIN FacadeTable

\* The facades declared Promise<void>: they await the client and return
\* nothing.
VoidFacades == {"logout", "requestPasswordReset", "resetPassword"}

\* The body handed to the client.  auth.logout takes no argument and sends
\* the refresh token it reads from the store.
FacadeBody(f, args, stored) ==
    IF f = "logout" THEN [k \in {"refresh_token"} |-> stored]
    ELSE [k \in FacadeTable[f].keys |-> args[k]]

FacadeRequest(f, args, stored) ==
    [method |-> FacadeTable[f].method, path |-> FacadeTable[f].path,
     body |-> FacadeBody(f, args, stored)]

\* What the facade returns when the client resolves with body data.
FacadeReturnsNothing(f, data) == Undefined

FacadeReturn(f, data) == IF f \in VoidFacades THEN Undefined ELSE data

\* What the facade throws when the client rejects with error e: no facade
\* has a try / catch, so the rejection passes through.
FacadeSwallows(f, e) == NoError

FacadeRejection(f, e) == e

\* A facade is called: it builds its request and hands it to the client.
FacadeCall(f, args) ==
    /\ fcState = "idle"
    /\ fcState' = "awaiting"
    /\ fcOp' = f
    /\ fcArgs' = args
    /\ fcRequest' = FacadeRequest(f, args, refresh)
    /\ fcCount' = fcCount + 1
    /\ UNCHANGED << fcData, fcError, fcReturn, fcThrown >>

\* The client resolves: the facade returns (auth.logout first removes both
\* tokens).
FacadeResolves(data) ==
    /\ fcState = "awaiting"
    /\ fcState' = "returned"
    /\ fcData' = data
    /\ fcReturn' = FacadeReturn(fcOp, data)
    /\ access' = IF fcOp = "logout" THEN ClearedStore.access_token ELSE access
    /\ refresh' = IF fcOp = "logout" THEN ClearedStore.refresh_token ELSE refresh
    /\ UNCHANGED << fcOp, fcArgs, fcRequest, fcCount, fcError, fcThrown >>

\* The client rejects: the facade's await throws.
FacadeRejects(e) ==
    /\ fcState = "awaiting"
    /\ fcState' = "thrown"
    /\ fcError' = e
    /\ fcThrown' = FacadeRejection(fcOp, e)
    /\ UNCHANGED << fcOp, fcArgs, fcRequest, fcCount, fcData, fcReturn >>

FacadeNext ==
    \/ \E f \in Facades : \E args \in [FacadeTable[f].keys -> ArgValues] :
           FacadeCall(f, args) /\ UNCHANGED << clientVars, pageVars, sessionVars >>
    \/ \E d \in Bodies :
           FacadeResolves(d) /\ UNCHANGED << requestVars, pageVars, sessionVars >>
    \/ \E e \in ClientErrors :
           FacadeRejects(e) /\ UNCHANGED << clientVars, pageVars, sessionVars >>

\* One facade call, under any arguments and any outcome of the client.
SpecFacade == Init /\ [][FacadeNext]_vars

\* -------------------------------------------------------- session context
\* AuthProvider (contexts/AuthContext): the profile check at mount and the
\* login / logout / register / password-reset operations.  Each action is
\* one run of the provider's code between two awaits; the awaited facade
\* call resolves or rejects as the client below it decides.

\* Operations a user starts in one session.
MaxOps == 2

\* The profile returned by auth.getCurrentUser.
Profile == "u1"

LoginFailed == "Login failed. Please check your credentials."
RegistrationFailed == "Registration failed. Please try again."
ResetRequestFailed == "Password reset request failed. Please try again."
ResetFailed == "Password reset failed. Please try again."

\* checkAuth asks for the profile only when an access token is stored.
ShouldLoadProfileAlways(token) == TRUE

ShouldLoadProfile(token) == token # None

\* Where each operation sends the browser once its calls succeeded.
NavigateAfterToLogin(o) == "/login"

NavigateAfter(o) ==
    CASE o = "login" -> "/dashboard"
      [] o = "logout" -> "/login"
      [] o = "resetPassword" -> "/login"

\* navigate(target)
Navigate(target) ==
    /\ location' = target
    /\ nDashboard' = IF target = "/dashboard" THEN nDashboard + 1 ELSE nDashboard
    /\ nLoginNav' = IF target = "/login" THEN nLoginNav + 1 ELSE nLoginNav

\* How the promise of logout settles: its catch block only logs, so it
\* resolves whether auth.logout failed or not.
LogoutRethrows(failed) == IF failed THEN "rejected" ELSE "resolved"

LogoutSettles(failed) == "resolved"

\* Errors the client can reject with in the current store: a second 401
\* needs a refresh that succeeded, hence a stored refresh token.
PossibleErrors ==
    {e \in ClientErrors : e = DispatchError(2, Unauthorized) => refresh # None}

\* What the client itself did before rejecting with e: a failed refresh
\* has cleared the store and set window.location.href.
ClientRejected(e) ==
    /\ expired' = (e.src = "refresh")
    /\ access' = IF e.src = "refresh" THEN ClearedStore.access_token ELSE access
    /\ refresh' = IF e.src = "refresh" THEN ClearedStore.refresh_token ELSE refresh

\* useEffect(() => { checkAuth() }, []) up to its await.
MountProvider ==
    /\ caPc = "unmounted"
    /\ caToken' = (access # None)
    /\ IF ShouldLoadProfile(access)
       THEN /\ caPc' = "auth.getCurrentUser"
            /\ caRequests' = caRequests + 1
            /\ UNCHANGED authLoading
       ELSE /\ caPc' = "done"
            /\ authLoading' = FALSE
            /\ UNCHANGED caRequests
    /\ expired' = FALSE
    /\ UNCHANGED << access, refresh, location, user, authError, nDashboard,
                    nLoginNav, sPc,
                    sOp, sOutcome, sFailed, nOps, caFailed >>

\* checkAuth: the profile arrived.
CheckAuthResolves ==
    /\ caPc = "auth.getCurrentUser"
    /\ user' = Profile
    /\ authLoading' = FALSE
    /\ caPc' = "done"
    /\ expired' = FALSE
    /\ UNCHANGED << access, refresh, location, authError, nDashboard,
                    nLoginNav, sPc,
                    sOp, sOutcome, sFailed, nOps, caRequests, caToken,
                    caFailed >>

\* checkAuth: the profile request failed; the error is only logged.
CheckAuthRejects(e) ==
    /\ caPc = "auth.getCurrentUser"
    /\ ClientRejected(e)
    /\ location' = IF e.src = "refresh" THEN "/login" ELSE location
    /\ caFailed' = TRUE
    /\ authLoading' = FALSE
    /\ caPc' = "done"
    /\ UNCHANGED << user, authError, nDashboard,
                    nLoginNav, sPc, sOp, sOutcome, sFailed,
                    nOps, caRequests, caToken >>

\* A user operation starts and runs to its first await.
CallOperation(o, first, clearsError) ==
    /\ caPc # "unmounted"
    /\ sPc = "idle"
    /\ nOps < MaxOps
    /\ nOps' = nOps + 1
    /\ sOp' = o
    /\ sPc' = first
    /\ sOutcome' = "pending"
    /\ sFailed' = FALSE
    /\ authError' = IF clearsError THEN None ELSE authError
    /\ expired' = FALSE
    /\ UNCHANGED << access, refresh, location, user, authLoading, nDashboard,
                    nLoginNav,
                    caPc, caRequests, caToken, caFailed >>

CallLogin == CallOperation("login", "auth.login", TRUE)

CallLogout == CallOperation("logout", "auth.logout", FALSE)

CallRegister == CallOperation("register", "auth.register", TRUE)

CallRequestPasswordReset ==
    CallOperation("requestPasswordReset", "auth.requestPasswordReset", TRUE)

CallResetPassword == CallOperation("resetPassword", "auth.resetPassword", TRUE)

\* The operation ends: its promise resolves or rejects.
Finish(outcome, failed) ==
    /\ sPc' = "idle"
    /\ sOutcome' = outcome
    /\ sFailed' = failed
    /\ UNCHANGED << sOp, nOps, authLoading, caPc, caRequests, caToken,
                    caFailed >>

\* login: auth.login resolved (it stores nothing); the profile is requested.
LoginResolves ==
    /\ sPc = "auth.login"
    /\ sPc' = "auth.getCurrentUser"
    /\ expired' = FALSE
    /\ UNCHANGED << access, refresh, location, user, authLoading, authError,
                    nDashboard, nLoginNav, sOp, sOutcome, sFailed, nOps, caPc,
                    caRequests, caToken, caFailed >>

\* login: the profile arrived; the user is set and the dashboard opened.
ProfileResolves ==
    /\ sPc = "auth.getCurrentUser"
    /\ user' = Profile
    /\ Navigate(NavigateAfter("login"))
    /\ Finish("resolved", FALSE)
    /\ expired' = FALSE
    /\ UNCHANGED << access, refresh, authError >>

\* login: either call failed; register, when it was the caller, catches the
\* rethrown error in turn.
LoginRejects(e) ==
    /\ sPc \in {"auth.login", "auth.getCurrentUser"}
    /\ ClientRejected(e)
    /\ location' = IF e.src = "refresh" THEN "/login" ELSE location
    /\ authError' = IF sOp = "register" THEN RegistrationFailed ELSE LoginFailed
    /\ Finish("rejected", TRUE)
    /\ UNCHANGED << user, nDashboard, nLoginNav >>

\* logout: auth.logout resolved and has removed both tokens.
LogoutResolves ==
    /\ sPc = "auth.logout"
    /\ access' = ClearedStore.access_token
    /\ refresh' = ClearedStore.refresh_token
    /\ user' = None
    /\ Navigate(NavigateAfter("logout"))
    /\ Finish(LogoutSettles(FALSE), FALSE)
    /\ expired' = FALSE
    /\ UNCHANGED authError

\* logout: auth.logout failed; the error is only logged.
LogoutRejects(e) ==
    /\ sPc = "auth.logout"
    /\ ClientRejected(e)
    /\ location' = IF e.src = "refresh" THEN "/login" ELSE location
    /\ Finish(LogoutSettles(TRUE), TRUE)
    /\ UNCHANGED << user, authError, nDashboard, nLoginNav >>

\* register: auth.register resolved; login(username, password) starts.
RegisterResolves ==
    /\ sPc = "auth.register"
    /\ authError' = None
    /\ sPc' = "auth.login"
    /\ expired' = FALSE
    /\ UNCHANGED << access, refresh, location, user, authLoading, nDashboard,
                    nLoginNav,
                    sOp, sOutcome, sFailed, nOps, caPc, caRequests, caToken,
                    caFailed >>

RegisterRejects(e) ==
    /\ sPc = "auth.register"
    /\ ClientRejected(e)
    /\ location' = IF e.src = "refresh" THEN "/login" ELSE location
    /\ authError' = RegistrationFailed
    /\ Finish("rejected", TRUE)
    /\ UNCHANGED << user, nDashboard, nLoginNav >>

RequestPasswordResetResolves ==
    /\ sPc = "auth.requestPasswordReset"
    /\ Finish("resolved", FALSE)
    /\ expired' = FALSE
    /\ UNCHANGED << access, refresh, location, user, authError, nDashboard,
                    nLoginNav >>

RequestPasswordResetRejects(e) ==
    /\ sPc = "auth.requestPasswordReset"
    /\ ClientRejected(e)
    /\ location' = IF e.src = "refresh" THEN "/login" ELSE location
    /\ authError' = ResetRequestFailed
    /\ Finish("rejected", TRUE)
    /\ UNCHANGED << user, nDashboard, nLoginNav >>

ResetPasswordResolves ==
    /\ sPc = "auth.resetPassword"
    /\ Navigate(NavigateAfter("resetPassword"))
    /\ Finish("resolved", FALSE)
    /\ expired' = FALSE
    /\ UNCHANGED << access, refresh, user, authError >>

ResetPasswordRejects(e) ==
    /\ sPc = "auth.resetPassword"
    /\ ClientRejected(e)
    /\ location' = IF e.src = "refresh" THEN "/login" ELSE location
    /\ authError' = ResetFailed
    /\ Finish("rejected", TRUE)
    /\ UNCHANGED << user, nDashboard, nLoginNav >>

SessionNext ==
    \/ MountProvider /\ UNCHANGED << slotVars, pageVars, facadeVars >>
    \/ CheckAuthResolves /\ UNCHANGED << slotVars, pageVars, facadeVars >>
    \/ \E e \in PossibleErrors :
           CheckAuthRejects(e) /\ UNCHANGED << slotVars, pageVars, facadeVars >>
    \/ CallLogin /\ UNCHANGED << slotVars, pageVars, facadeVars >>
    \/ CallLogout /\ UNCHANGED << slotVars, pageVars, facadeVars >>
    \/ CallRegister /\ UNCHANGED << slotVars, pageVars, facadeVars >>
    \/ CallRequestPasswordReset /\ UNCHANGED << slotVars, pageVars, facadeVars >>
    \/ CallResetPassword /\ UNCHANGED << slotVars, pageVars, facadeVars >>
    \/ LoginResolves /\ UNCHANGED << slotVars, pageVars, facadeVars >>
    \/ ProfileResolves /\ UNCHANGED << slotVars, pageVars, facadeVars >>
    \/ \E e \in PossibleErrors :
           LoginRejects(e) /\ UNCHANGED << slotVars, pageVars, facadeVars >>
    \/ LogoutResolves /\ UNCHANGED << slotVars, pageVars, facadeVars >>
    \/ \E e \in PossibleErrors :
           LogoutRejects(e) /\ UNCHANGED << slotVars, pageVars, facadeVars >>
    \/ RegisterResolves /\ UNCHANGED << slotVars, pageVars, facadeVars >>
    \/ \E e \in PossibleErrors :
           RegisterRejects(e) /\ UNCHANGED << slotVars, pageVars, facadeVars >>
    \/ RequestPasswordResetResolves
           /\ UNCHANGED << slotVars, pageVars, facadeVars >>
    \/ \E e \in PossibleErrors :
           RequestPasswordResetRejects(e)
               /\ UNCHANGED << slotVars, pageVars, facadeVars >>
    \/ ResetPasswordResolves /\ UNCHANGED << slotVars, pageVars, facadeVars >>
    \/ \E e \in PossibleErrors :
           ResetPasswordRejects(e)
               /\ UNCHANGED << slotVars, pageVars, facadeVars >>

\* The session context under any user and any outcomes of its facade calls.
SpecSession == Init /\ [][SessionNext]_vars

TypeOK ==
    /\ access \in AccessTokens \cup {None}
    /\ refresh \in RefreshTokens \cup {None}
    /\ location \in {"app", "/login"}
    /\ \A r \in Req :
        /\ pc[r] \in {"idle", "sent", "refreshing", "resolved", "rejected"}
        /\ op[r] \in Ops
        /\ retry[r] \in BOOLEAN
        /\ nDispatch[r] \in 0..2
        /\ nRefresh[r] \in 0..1

\* ------------------------------------------------------------------ claims

\* The step in which the refresh call made for request r fails.
RefreshFails(r) == pc[r] = "refreshing" /\ pc'[r] = "rejected"

\* C1: a request whose first 401 arrives while a refresh token is stored
\* makes exactly one refresh call; when that call succeeds, the new access
\* token is in the store at the re-dispatch, the request has been dispatched
\* exactly twice and carries Bearer <new token>; a 401 answering the second
\* dispatch starts no further refresh call.
C1_RefreshOnceRetryOnce ==
    \A r \in Req :
        /\ (retry[r] /\ refreshRead[r] # None) => nRefresh[r] = 1
        /\ issued[r] # None =>
              /\ nDispatch[r] = 2
              /\ accessAtDispatch[r] = issued[r]
              /\ hdr[r] = Bearer(issued[r])
        /\ (nDispatch[r] = 2 /\ lastStatus[r] = Unauthorized) =>
              (pc[r] # "refreshing" /\ nRefresh[r] = 1)

\* C1 witness: a request was refreshed, re-dispatched and answered 401 again.
C1_Witness ==
    \E r \in Req :
        /\ pc[r] = "rejected"
        /\ err[r] = DispatchError(2, Unauthorized)
        /\ issued[r] # None
        /\ nRefresh[r] = 1

\* C2: no logical request ever has more than one refresh call or more than
\* one retried dispatch (two dispatches in all) made on its behalf.
C2_AtMostOneRefreshAndRetry ==
    \A r \in Req : nRefresh[r] <= 1 /\ nDispatch[r] <= 2

\* C2 witness: both dispatches of a request were answered 401.
C2_Witness ==
    \E r \in Req :
        /\ nDispatch[r] = 2
        /\ nRefresh[r] = 1
        /\ lastStatus[r] = Unauthorized
        /\ pc[r] \in Done

\* C3: every dispatched request carries no Authorization header when no
\* access token was stored at its dispatch, and Bearer <that token> when one
\* was.
C3_HeaderMatchesStore ==
    \A r \in Req :
        nDispatch[r] >= 1 =>
            /\ accessAtDispatch[r] = None => hdr[r] = NoHeader
            /\ accessAtDispatch[r] # None => hdr[r] = Bearer(accessAtDispatch[r])

\* C3 witness: one request went out without a header (empty store) and
\* another went out with one.
C3_Witness ==
    \E r, q \in Req :
        /\ nDispatch[r] >= 1 /\ accessAtDispatch[r] = None /\ hdr[r] = NoHeader
        /\ nDispatch[q] >= 1 /\ accessAtDispatch[q] # None /\ hdr[q] # NoHeader

\* C4 (as claimed): a request whose first 401 arrives while no refresh token
\* is stored makes no refresh call and is rejected with that 401.
C4_NoRefreshWithoutToken ==
    \A r \in Req :
        (retry[r] /\ refreshRead[r] = None) =>
            /\ nRefresh[r] = 0
            /\ pc[r] = "rejected"
            /\ err[r] = DispatchError(1, Unauthorized)

\* C5: in the step in which the refresh call fails, both tokens are removed,
\* the location becomes /login, the request is rejected with the refresh
\* call's error, and the request is not dispatched again.
C5_RefreshFailureEndsSession ==
    [][\A r \in Req :
          RefreshFails(r) =>
              /\ access' = None
              /\ refresh' = None
              /\ location' = "/login"
              /\ err'[r].src = "refresh"
              /\ nDispatch'[r] = nDispatch[r]]_vars

\* C5 witness: a request was rejected by a failed refresh call.
C5_Witness ==
    \E r \in Req :
        /\ pc[r] = "rejected"
        /\ err[r].src = "refresh"
        /\ location = "/login"
        /\ nDispatch[r] = 1

\* C6 (as claimed): when the refresh call fails, the caller receives the
\* original request's 401 error and both tokens are absent right after.
C6_OriginalErrorPropagated ==
    [][\A r \in Req :
          RefreshFails(r) =>
              /\ err'[r] = DispatchError(1, Unauthorized)
              /\ access' = None
              /\ refresh' = None]_vars

\* C6 (amended): when the refresh call fails, the caller receives the
\* refresh call's own error, never the original request's 401 error, and
\* both tokens are absent right after.
C6_RefreshErrorPropagated ==
    [][\A r \in Req :
          RefreshFails(r) =>
              /\ err'[r] \in {RefreshError(s) : s \in RefreshFailures}
              /\ err'[r] # DispatchError(nDispatch[r], lastStatus[r])
              /\ access' = None
              /\ refresh' = None]_vars

\* C6 witness: a caller holds the error of a refresh call that got no answer
\* while the request's own answer was a 401.
C6_Witness ==
    \E r \in Req :
        /\ pc[r] = "rejected"
        /\ err[r] = RefreshError(0)
        /\ lastStatus[r] = Unauthorized
        /\ access = None
        /\ refresh = None

\* C7 (as claimed): in the step in which a call to auth.logout completes,
\* resolved or rejected, both tokens are absent from the store.
C7_LogoutAlwaysClears ==
    [][\A r \in Req :
          (op[r] = "logout" /\ pc[r] \in {"sent", "refreshing"} /\ pc'[r] \in Done) =>
              (access' = None /\ refresh' = None)]_vars

\* C8 (as claimed): the access token and the refresh token are both stored
\* or both absent.
C8_BothOrNeither == (access = None) <=> (refresh = None)

\* C9 (as claimed): in the step in which auth.login or auth.register
\* resolves, the store holds the token pair the backend returned.
C9_LoginStoresTokens ==
    [][\A r \in Req :
          (op[r] \in {"login", "register"} /\ pc[r] = "sent" /\ pc'[r] = "resolved") =>
              /\ access' = result'[r].access_token
              /\ refresh' = result'[r].refresh_token]_vars

\* C10: a dispatch answered with an error status other than 401, or with 401
\* when the request is already marked retried, is rejected with that very
\* error; no refresh call and no dispatch is made and the store is unchanged.
C10_OtherErrorsPassThrough ==
    [][\A r \in Req :
          ( /\ pc[r] = "sent"
            /\ pc'[r] # "sent"
            /\ \/ lastStatus'[r] \in ErrorStatuses \ {Unauthorized}
               \/ lastStatus'[r] = Unauthorized /\ retry[r] ) =>
              /\ pc'[r] = "rejected"
              /\ err'[r] = DispatchError(nDispatch[r], lastStatus'[r])
              /\ nRefresh' = nRefresh
              /\ nDispatch' = nDispatch
              /\ access' = access
              /\ refresh' = refresh]_vars

\* C10 witness: one request was rejected with its 500, another with the 401
\* that answered its retry.
C10_Witness ==
    \E r, q \in Req :
        /\ pc[r] = "rejected" /\ err[r] = DispatchError(1, 500)
        /\ pc[q] = "rejected" /\ err[q] = DispatchError(2, Unauthorized)

\* The step in which request r, already retried, is answered 401 again.
SecondUnauthorized(r) ==
    /\ pc[r] = "sent"
    /\ retry[r]
    /\ pc'[r] # "sent"
    /\ lastStatus'[r] = Unauthorized

\* C11 (as claimed): when a retried request is answered 401 again, the
\* stored tokens are cleared and the location becomes /login.
C11_SecondUnauthorizedEndsSession ==
    [][\A r \in Req :
          SecondUnauthorized(r) =>
              /\ access' = None
              /\ refresh' = None
              /\ location' = "/login"]_vars

\* C11 (amended): when a retried request is answered 401 again, the request
\* is rejected with that 401 and nothing else happens: the stored tokens and
\* the location are what they were.
C11_SecondUnauthorizedOnlyRejects ==
    [][\A r \in Req :
          SecondUnauthorized(r) =>
              /\ pc'[r] = "rejected"
              /\ err'[r] = DispatchError(2, Unauthorized)
              /\ access' = access
              /\ refresh' = refresh
              /\ location' = location]_vars

\* C11 witness: a retried request was rejected with its second 401 while the
\* tokens are still stored and no redirect has happened.
C11_Witness ==
    \E r \in Req :
        /\ pc[r] = "rejected"
        /\ err[r] = DispatchError(2, Unauthorized)
        /\ access # None
        /\ refresh # None
        /\ location = "app"

\* C20 (as claimed): between a request's read of the refresh token (the
\* 401 handler) and its write of the new access token (after the refresh
\* call), no other step reads or writes the token store: while a request is
\* waiting for its refresh call, the store does not change.
C20_NoStoreChangeDuringRefresh ==
    [][\A r \in Req :
          (pc[r] = "refreshing" /\ pc'[r] = "refreshing") =>
              (access' = access /\ refresh' = refresh)]_vars

\* The latest run has no call left pending.
LatestRunSettled == \A i \in 1..Len(pgStatus) : pgStatus[i] # "pending"

\* C12 (as claimed): once a run in which some call rejected has settled,
\* the page shows its failure message and no result block, whatever came
\* before.
C12_FailureShowsNoResult ==
    (pgAwait = "rejected" /\ LatestRunSettled) =>
        (pgError = FailureMessage(page) /\ pgResult = Null)

\* C13: whenever a result is set, it is the complete result of one run, each
\* field read from the matching call's response of that run; and when it is
\* the latest run's result, every call of that run has resolved (none is
\* pending, none has rejected).
C13_ResultOnlyAfterAllResolved ==
    pgResult # Null =>
        \E b \in 1..pgBatch :
            /\ Len(pgResult) = Len(pgStatus)
            /\ \A i \in 1..Len(pgResult) :
                   pgResult[i] = <<ResultFields(page)[i],
                                   Response(page, i, b)[ResponseFields(page)[i]]>>
            /\ b = pgBatch => \A i \in 1..Len(pgStatus) : pgStatus[i] = "resolved"

\* C13 witness: the second run of a page has replaced the first run's result.
C13_Witness ==
    /\ pgBatch = 2
    /\ pgAwait = "fulfilled"
    /\ pgResult # Null
    /\ pgResult[1][2][2] = 2

\* C14 (as claimed): the primary button is enabled exactly when the input
\* rule holds and no call of the page is in flight, and calls of at most one
\* run are in flight at any time.
C14_EnabledIffCompleteAndIdle ==
    page # "none" =>
        /\ ~Disabled(page, pgForm, pgLoading) <=>
               (InputComplete(page, pgForm) /\ InFlight = 0)
        /\ ~(pgOrphans > 0 /\ ~LatestRunSettled)

\* C15: a run of the life-balance page makes exactly four calls, one to each
\* of calculateScores, generateInsights, getRecommendations and
\* optimizeSchedule, each with the activity list of that moment and the
\* last also with the schedule; the goal list is no argument of any.
C15_LifeBalanceCallsOnceEach ==
    [][(page = "lifeBalance" /\ pgBatch' = pgBatch + 1) =>
          /\ Len(pgCalls') = 4
          /\ pgCalls'[1] = [fn |-> "calculateScores", args |-> <<pgForm.activities>>]
          /\ pgCalls'[2] = [fn |-> "generateInsights", args |-> <<pgForm.activities>>]
          /\ pgCalls'[3] = [fn |-> "getRecommendations", args |-> <<pgForm.activities>>]
          /\ pgCalls'[4] = [fn |-> "optimizeSchedule",
                            args |-> <<pgForm.activities, pgForm.schedule>>]
          /\ \A i \in 1..4 : pgStatus'[i] = "pending"]_vars

\* C15 witness: a run of the life-balance page is awaited, made while the
\* goal list differs from the activity list.
C15_Witness ==
    /\ page = "lifeBalance"
    /\ pgAwait = "waiting"
    /\ Len(pgCalls) = 4
    /\ pgCalls[3].args = <<pgForm.activities>>
    /\ pgForm.goals # pgForm.activities
\* ------------------------------------------------------------ C18, C19

\* The endpoint table of the interface description: the method, the path
\* and the body keys listed for each facade operation.
EndpointTable ==
    [login |-> << "POST", "/api/auth/login", {"email", "password"} >>,
     register |-> << "POST", "/api/auth/register", {"email", "password", "name"} >>,
     logout |-> << "POST", "/api/auth/logout", {"refresh_token"} >>,
     getCurrentUser |-> << "GET", "/api/auth/me", {} >>,
     requestPasswordReset |-> << "POST", "/api/auth/password-reset-request", {"email"} >>,
     resetPassword |-> << "POST", "/api/auth/password-reset", {"token", "password"} >>,
     summarize |-> << "POST", "/api/email/summarize", {"content", "subject"} >>,
     analyzeSentiment |-> << "POST", "/api/email/sentiment", {"content", "subject"} >>,
     classifyPriority |-> << "POST", "/api/email/priority", {"content", "subject"} >>,
     extractActions |-> << "POST", "/api/email/actions", {"content", "subject"} >>,
     generateReplies |-> << "POST", "/api/email/replies", {"content", "subject"} >>,
     calculateScores |-> << "POST", "/api/life-balance/scores", {"activities"} >>,
     generateInsights |-> << "POST", "/api/life-balance/insights", {"activities"} >>,
     getRecommendations |-> << "POST", "/api/life-balance/recommendations", {"activities"} >>,
     optimizeSchedule |-> << "POST", "/api/life-balance/optimize", {"activities", "schedule"} >>,
     identifyLearningStyle |-> << "POST", "/api/memory/learning-style", {"sessions"} >>,
     calculatePerformanceMetrics |-> << "POST", "/api/memory/performance", {"sessions"} >>,
     getStudyRecommendations |-> << "POST", "/api/memory/recommendations", {"sessions"} >>,
     extractKeyConceptsFromContent |-> << "POST", "/api/memory/concepts", {"content", "type"} >>,
     generateReviewQuestions |-> << "POST", "/api/memory/questions", {"content", "type", "count"} >>,
     analyzeKnowledgeGaps |-> << "POST", "/api/memory/gaps", {"sessions"} >>,
     getLearningStyles |-> << "GET", "/api/memory/learning-styles", {} >>,
     getMemoryTechniques |-> << "GET", "/api/memory/techniques", {} >>]

\* The facade issued exactly one request, to the listed method and path,
\* with the listed body keys.
OneListedRequest ==
    /\ fcCount = 1
    /\ fcRequest.method = EndpointTable[fcOp][1]
    /\ fcRequest.path = EndpointTable[fcOp][2]
    /\ DOMAIN fcRequest.body = EndpointTable[fcOp][3]

\* Every body key holds the argument of that name.
BodyFromArguments ==
    \A k \in DOMAIN fcRequest.body :
        k \in DOMAIN fcArgs /\ fcRequest.body[k] = fcArgs[k]

C19_RejectionPassesThrough ==
    fcState = "thrown" =>
        /\ fcThrown = fcError
        /\ fcError # NoError
        /\ fcCount = 1
        /\ fcReturn = "none"

\* A facade call was rejected with the error of a failed refresh.
C19_Witness ==
    /\ fcState = "thrown"
    /\ fcThrown = RefreshError(Unauthorized)
    /\ fcOp = "summarize"

\* ------------------------------------------------------------ C16, C17

\* C16: at startup the session context requests the current profile exactly
\* once if an access token is stored and not at all otherwise; in both
\* cases, and also when the profile request fails, its loading flag ends
\* false, and on failure or absence of a token the user stays null (until
\* a login sets it).
C16_ProfileLoadedOnceIfToken ==
    /\ caRequests = (IF caToken /\ caPc # "unmounted" THEN 1 ELSE 0)
    /\ caPc = "done" => authLoading = FALSE
    /\ (caPc = "done" /\ (caFailed \/ ~caToken) /\ nDashboard = 0)
           => user = None

\* The profile check ran with a token stored and its one request failed.
C16_Witness ==
    /\ caPc = "done"
    /\ caToken
    /\ caFailed
    /\ caRequests = 1
    /\ authLoading = FALSE
    /\ user = None

\* The running operation ends in this step.
Finishes == sPc # "idle" /\ sPc' = "idle"

\* A login or a registration ends successfully in this step.
SignsIn == Finishes /\ sOp \in {"login", "register"} /\ sOutcome' = "resolved"

C21_RefreshToBaseOrigin ==
    \A r \in Req :
        nRefresh[r] > 0 =>
            /\ refreshUrl[r].path = "/api/auth/refresh"
            /\ refreshUrl[r].origin = sentOrigin[r]
            /\ refreshUrl[r].origin =
                   (IF apiUrl = Unset THEN DefaultOrigin ELSE apiUrl)

\* The step in which a dispatch of request r fails without any response.
NoResponse(r) == pc[r] = "sent" /\ pc'[r] # "sent" /\ lastStatus'[r] = 0

\* C22 (as claimed): when a request fails with a network failure that has
\* no HTTP response at all, the client rejects to the caller with that same
\* transport error unchanged, issues no refresh call, and leaves the token
\* store unchanged.
C22_TransportErrorPassesThrough ==
    [][\A r \in Req :
          NoResponse(r) =>
              /\ pc'[r] = "rejected"
              /\ err'[r] = NetworkError(nDispatch[r])
              /\ nRefresh' = nRefresh
              /\ access' = access /\ refresh' = refresh]_vars

\* A login or a registration resolves in this step.
NewSignIn ==
    \E r \in Req :
        op[r] \in {"login", "register"} /\ pc[r] = "sent" /\ pc'[r] = "resolved"

\* C27 (as claimed): once a refresh failure has cleared the token store
\* (session expired), no later step of any request that was already in
\* flight writes a token back into the store: the store stays empty until a
\* new login or registration.
C27_StoreStaysEmptyAfterExpiry ==
    [][(location = "/login" /\ access = None /\ refresh = None /\ ~NewSignIn)
           => (access' = None /\ refresh' = None)]_vars

\* C28: the refresh call bypasses the client's interceptors: it carries no
\* bearer Authorization header taken from the store, and a 401 (or any
\* failure) answering the refresh call never starts a nested refresh call:
\* the request is rejected and no request begins to wait for a refresh.
C28_RefreshBypassesInterceptors ==
    [][\A r \in Req :
          /\ refreshHdr'[r] = NoHeader
          /\ RefreshFails(r) =>
                 /\ nRefresh' = nRefresh
                 /\ nDispatch' = nDispatch
                 /\ \A q \in Req : pc'[q] = "refreshing" => pc[q] = "refreshing"
      ]_vars

\* A refresh call made while an access token was stored was answered 401.
C28_Witness ==
    \E r \in Req :
        /\ pc[r] = "rejected"
        /\ err[r] = RefreshError(Unauthorized)
        /\ accessAtDispatch[r] # None
        /\ refreshHdr[r] = NoHeader
        /\ nRefresh[r] = 1
        /\ nDispatch[r] = 1

\* ------------------------------------------------------------------- C29

\* C29: provided every individual network call eventually settles, every
\* logical request made through the client eventually resolves or rejects
\* to its caller, after at most two dispatches of the request and one
\* refresh call, for any pattern of backend responses: from some point on
\* no request is waiting for a dispatch or for a refresh call (a settled
\* request stays settled).
C29_EveryRequestSettles ==
    /\ [](\A r \in Req : nDispatch[r] <= 2 /\ nRefresh[r] <= 1)
    /\ <>[](\A r \in Req : pc[r] \notin {"sent", "refreshing"})

\* A request settled after two dispatches and one refresh call, both of
\* its dispatches having been answered 401.
C29_Witness ==
    \E r \in Req :
        /\ pc[r] = "rejected"
        /\ err[r] = DispatchError(2, Unauthorized)
        /\ nDispatch[r] = 2
        /\ nRefresh[r] = 1

\* -------------------------------------------------------------- C24, C25

\* A text of blanks only (the empty text included).
IsBlank(t) == \A i \in 1..Len(t) : t[i] = " "

\* u is t without the blanks at its two ends.
IsTrimmed(u, t) ==
    \E i, j \in 0..Len(t) :
        /\ i < j
        /\ u = SubSeq(t, i + 1, j)
        /\ u[1] # " " /\ u[Len(u)] # " "
        /\ \A k \in 1..Len(t) : (k <= i \/ k > j) => t[k] = " "

ListInputs == {<< "activities", "newActivity" >>, << "goals", "newGoal" >>}

\* C24: on the life-balance page, adding an activity (or goal) whose input
\* is empty or only whitespace leaves the activity and goal lists and the
\* input unchanged; otherwise the trimmed input is appended at the end of
\* that one list, the input field is cleared, and the other list and the
\* schedule are unchanged.
C24_AddAppendsTrimmedOrNothing ==
    [][\A li \in ListInputs :
          AddItem(li[1], li[2]) =>
              IF IsBlank(pgForm[li[2]])
              THEN pgForm' = pgForm
              ELSE /\ Len(pgForm'[li[1]]) = Len(pgForm[li[1]]) + 1
                   /\ SubSeq(pgForm'[li[1]], 1, Len(pgForm[li[1]])) = pgForm[li[1]]
                   /\ IsTrimmed(pgForm'[li[1]][Len(pgForm'[li[1]])], pgForm[li[2]])
                   /\ pgForm'[li[2]] = Empty
                   /\ \A n \in DOMAIN pgForm \ {li[1], li[2]} :
                          pgForm'[n] = pgForm[n]]_vars

\* An input with blanks around it was added to a list that held another
\* item, next to a goal list and a schedule that are not empty.
C24_Witness ==
    /\ page = "lifeBalance"
    /\ pgForm.activities = << <<"b">>, <<"a">> >>
    /\ pgForm.newActivity = Empty
    /\ pgForm.goals = << <<"a">> >>
    /\ pgForm.newGoal = <<" ">>
    /\ pgForm.schedule = <<"b">>

C23_LoadingUntilBatchSettled ==
    pgBatch > 0 =>
        /\ pgLoading <=> ~LatestRunSettled
        /\ ~LatestRunSettled => Disabled(page, pgForm, pgLoading)

\* The session record of the memory page as the facades receive it.
SessionRecord ==
    [content |-> pgForm.content, duration |-> pgForm.duration,
     method |-> pgForm.method, performance |-> pgForm.performance]

\* C26: triggering memory analysis calls each of the six memory facades
\* exactly once: identifyLearningStyle, calculatePerformanceMetrics,
\* getStudyRecommendations and analyzeKnowledgeGaps with a one-element list
\* holding the current session record (duration and performance as
\* numbers), extractKeyConceptsFromContent with (content, method), and
\* generateReviewQuestions with (content, method, 5).
C26_MemoryCallsOnceEach ==
    [][(page = "memory" /\ pgBatch' = pgBatch + 1) =>
          /\ pgForm.duration \in Nat /\ pgForm.performance \in Nat
          /\ Len(pgCalls') = 6
          /\ pgCalls'[1] = [fn |-> "identifyLearningStyle",
                            args |-> << <<SessionRecord>> >>]
          /\ pgCalls'[2] = [fn |-> "calculatePerformanceMetrics",
                            args |-> << <<SessionRecord>> >>]
          /\ pgCalls'[3] = [fn |-> "getStudyRecommendations",
                            args |-> << <<SessionRecord>> >>]
          /\ pgCalls'[4] = [fn |-> "extractKeyConceptsFromContent",
                            args |-> <<pgForm.content, pgForm.method>>]
          /\ pgCalls'[5] = [fn |-> "generateReviewQuestions",
                            args |-> <<pgForm.content, pgForm.method, 5>>]
          /\ pgCalls'[6] = [fn |-> "analyzeKnowledgeGaps",
                            args |-> << <<SessionRecord>> >>]
          /\ \A i \in 1..6 : pgStatus'[i] = "pending"]_vars

\* A second run of the memory page is awaited, made after duration,
\* performance and method were changed.
C26_Witness ==
    /\ page = "memory"
    /\ pgBatch = 2
    /\ pgAwait = "waiting"
    /\ Len(pgCalls) = 6
    /\ pgCalls[1].args[1][1].duration = 45
    /\ pgCalls[1].args[1][1].performance = 0
    /\ pgCalls[5].args = << <<"a">>, <<"p">>, 5 >>

\* ------------------------------------------------------------------- C30

============================================================================
